---- MODULE Spec2Model ----
(***************************************************************************)
(* Model of search_r1/llm_agent/tensor_helper.py (class TensorHelper).     *)
(*                                                                         *)
(* A 2-D tensor is a sequence of rows, a row a sequence of integers.       *)
(* torch indexes columns from 0; sequences here are indexed from 1, so a   *)
(* column index of the model is the torch index plus one.  Values stored   *)
(* in tensors (token ids, mask bits, position ids) are kept as they are.   *)
(***************************************************************************)
EXTENDS Integers, Sequences, FiniteSets

VARIABLES
    pad_token_id,   \* TensorConfig.pad_token_id of the helper instance
    pc,             \* "start", or the name of the method called last
    inp,            \* the caller's input data
    arg,            \* the arguments of the last call
    ret,            \* what the last call returned (or the exception it raised)
    calls           \* pad_to_left of every convert_pad_structure call so far

vars == <<pad_token_id, pc, inp, arg, ret, calls>>

----------------------------------------------------------------------------
(* Bounds of the enumerated inputs. *)

MaxToken == 2
MaxBatch == 2
MaxWidth == 3
MaxCells == 6

Tokens == 0..MaxToken

\* the batches (rows x width) of token ids of at most MaxCells cells
Shapes == {s \in (1..MaxBatch) \X (0..MaxWidth) : s[1] * s[2] <= MaxCells}

Batches == UNION {[1..s[1] -> [1..s[2] -> Tokens]] : s \in Shapes}

\* an argument that was not supplied (None) is <<>>, a supplied value v <<v>>
None == <<>>

Optional(S) == {None} \cup {<<v>> : v \in S}

----------------------------------------------------------------------------
(* torch primitives *)

\* the sequence s written out as a tuple: the identity on sequences (TLC then
\* holds the elements of s and not the expression that gives them)
Tuple(s) == s \o <<>>

\* the columns of row whose value is v, in increasing order
RECURSIVE ColumnsOf(_, _, _)
ColumnsOf(row, v, j) ==
    IF j > Len(row) THEN <<>>
    ELSE (IF row[j] = v THEN <<j>> ELSE <<>>) \o ColumnsOf(row, v, j + 1)

\* the same columns in decreasing order: what an unstable sort may give
RECURSIVE ColumnsOfReversed(_, _, _)
ColumnsOfReversed(row, v, j) ==
    IF j > Len(row) THEN <<>>
    ELSE ColumnsOfReversed(row, v, j + 1) \o (IF row[j] = v THEN <<j>> ELSE <<>>)

argsort_unstable(keys) ==
    Tuple([r \in 1..Len(keys) |->
        ColumnsOfReversed(keys[r], 0, 1) \o ColumnsOfReversed(keys[r], 1, 1)])

\* keys.argsort(dim=1, stable=True) of a 0/1 tensor: per row, the columns
\* holding 0 in their order, then the columns holding 1 in their order
argsort_stable(keys) ==
    Tuple([r \in 1..Len(keys) |->
        ColumnsOf(keys[r], 0, 1) \o ColumnsOf(keys[r], 1, 1)])

\* tensor.gather(1, index)
gather(tensor, index) ==
    Tuple([r \in 1..Len(tensor) |->
        Tuple([j \in 1..Len(index[r]) |-> tensor[r][index[r][j]]])])

\* (tensor != pad_token_id).to(int64)
ne_pad(tensor) ==
    Tuple([r \in 1..Len(tensor) |->
        Tuple([j \in 1..Len(tensor[r]) |->
            IF tensor[r][j] # pad_token_id THEN 1 ELSE 0])])

\* (tensor == pad_token_id).to(int64)
eq_pad(tensor) ==
    Tuple([r \in 1..Len(tensor) |->
        Tuple([j \in 1..Len(tensor[r]) |->
            IF tensor[r][j] = pad_token_id THEN 1 ELSE 0])])

----------------------------------------------------------------------------
(* TensorHelper.convert_pad_structure *)

pad_side_mask_inverted(tensor, pad_to_left) ==
    IF pad_to_left THEN eq_pad(tensor) ELSE ne_pad(tensor)

pad_side_mask(tensor, pad_to_left) ==
    IF pad_to_left THEN ne_pad(tensor) ELSE eq_pad(tensor)

\* returns <<tensor.gather(1, sorted_indices), sorted_indices>>
convert_pad_structure(tensor, pad_to_left) ==
    LET mask == pad_side_mask(tensor, pad_to_left)
        sorted_indices == argsort_stable(mask)
    IN  <<gather(tensor, sorted_indices), sorted_indices>>

----------------------------------------------------------------------------
(* The pad-side converter called on a batch and then on its own output, to *)
(* either side each time, for as many calls as the round trip left, right, *)
(* left takes.                                                             *)

RoundTrip == <<TRUE, FALSE, TRUE>>

InitConvert ==
    /\ pad_token_id \in Tokens
    /\ inp \in Batches
    /\ pc = "start"
    /\ arg = <<>>
    /\ ret = <<>>
    /\ calls = <<>>

ConvertPadStructure(pad_to_left) ==
    /\ pc \in {"start", "convert_pad_structure"}
    /\ Len(calls) < Len(RoundTrip)
    /\ LET tensor == IF calls = <<>> THEN inp ELSE ret[1]
       IN  /\ arg' = tensor
           /\ ret' = convert_pad_structure(tensor, pad_to_left)
    /\ calls' = Append(calls, pad_to_left)
    /\ pc' = "convert_pad_structure"
    /\ UNCHANGED <<pad_token_id, inp>>

NextConvert == \E pad_to_left \in BOOLEAN : ConvertPadStructure(pad_to_left)

SpecConvert == InitConvert /\ [][NextConvert]_vars

----------------------------------------------------------------------------
(* TensorHelper.create_attention_mask, create_position_ids *)

\* torch.where(input_ids != pad_token_id, 1, 0)
create_attention_mask(input_ids) ==
    Tuple([r \in 1..Len(input_ids) |->
        Tuple([j \in 1..Len(input_ids[r]) |->
            IF input_ids[r][j] # pad_token_id THEN 1 ELSE 0])])

\* row[1] + ... + row[j]
RECURSIVE SumTo(_, _)
SumTo(row, j) == IF j = 0 THEN 0 ELSE SumTo(row, j - 1) + row[j]

\* torch.cumsum(tensor, dim=1)
cumsum(tensor) ==
    Tuple([r \in 1..Len(tensor) |->
        Tuple([j \in 1..Len(tensor[r]) |-> SumTo(tensor[r], j)])])

create_position_ids_unmasked(attention_mask) ==
    LET c == cumsum(attention_mask)
    IN  Tuple([r \in 1..Len(attention_mask) |->
            Tuple([j \in 1..Len(attention_mask[r]) |-> c[r][j] - 1])])

\* (torch.cumsum(attention_mask, dim=1) - 1) * attention_mask
create_position_ids(attention_mask) ==
    LET c == cumsum(attention_mask)
    IN  Tuple([r \in 1..Len(attention_mask) |->
            Tuple([j \in 1..Len(attention_mask[r]) |->
                (c[r][j] - 1) * attention_mask[r][j]])])

----------------------------------------------------------------------------
(* TensorHelper.cut_to_effective_len *)

\* tensor.sum(dim=1).max()
RECURSIVE MaxOf(_, _)
MaxOf(f, n) ==
    IF n = 1 THEN f[1]
    ELSE LET m == MaxOf(f, n - 1) IN IF f[n] > m THEN f[n] ELSE m

sum_dim1_max(tensor) ==
    MaxOf([r \in 1..Len(tensor) |-> SumTo(tensor[r], Len(tensor[r]))], Len(tensor))

\* Python's bound of a slice: a negative bound counts from the end, and the
\* bound is clipped to 0..n
SliceBound(k, n) ==
    IF k < 0 THEN (IF k + n < 0 THEN 0 ELSE k + n)
    ELSE (IF k > n THEN n ELSE k)

\* tensor[:, start:]
slice_from(tensor, start) ==
    Tuple([r \in 1..Len(tensor) |->
        SubSeq(tensor[r], SliceBound(start, Len(tensor[r])) + 1, Len(tensor[r]))])

\* tensor[:, :stop]
slice_to(tensor, stop) ==
    Tuple([r \in 1..Len(tensor) |->
        SubSeq(tensor[r], 1, SliceBound(stop, Len(tensor[r])))])

cut_one_keeps_first(tensor, effective_len, cut_left) ==
    slice_to(tensor, effective_len)

\* the loop body: tensor_dict[key][:, -effective_len:] or [:, :effective_len]
cut_one(tensor, effective_len, cut_left) ==
    IF cut_left THEN slice_from(tensor, 0 - effective_len)
    ELSE slice_to(tensor, effective_len)

cut_to_effective_len(tensor_dict, keys, cut_left) ==
    LET effective_len == sum_dim1_max(tensor_dict.attention_mask)
    IN  [key \in DOMAIN tensor_dict |->
            IF key \in keys
            THEN cut_one(tensor_dict[key], effective_len, cut_left)
            ELSE tensor_dict[key]]

----------------------------------------------------------------------------
(* The mask and position deriver and the length trimmer, called on a batch *)
(* of token ids: the mask first, then the position ids or the trim of the  *)
(* dictionary {input_ids, attention_mask}.                                 *)

TensorKeys == {"input_ids", "attention_mask"}

InitDerive ==
    /\ pad_token_id \in Tokens
    /\ inp \in Batches
    /\ pc = "start"
    /\ arg = <<>>
    /\ ret = <<>>
    /\ calls = <<>>

CreateAttentionMask ==
    /\ pc = "start"
    /\ arg' = inp
    /\ ret' = create_attention_mask(inp)
    /\ pc' = "create_attention_mask"
    /\ UNCHANGED <<pad_token_id, inp, calls>>

CreatePositionIds ==
    /\ pc = "create_attention_mask"
    /\ arg' = ret
    /\ ret' = create_position_ids(ret)
    /\ pc' = "create_position_ids"
    /\ UNCHANGED <<pad_token_id, inp, calls>>

CutToEffectiveLen(keys, cut_left) ==
    /\ pc = "create_attention_mask"
    /\ LET tensor_dict == [input_ids |-> inp, attention_mask |-> ret]
       IN  /\ arg' = [tensor_dict |-> tensor_dict, keys |-> keys, cut_left |-> cut_left]
           /\ ret' = cut_to_effective_len(tensor_dict, keys, cut_left)
    /\ pc' = "cut_to_effective_len"
    /\ UNCHANGED <<pad_token_id, inp, calls>>

NextDerive ==
    \/ CreateAttentionMask
    \/ CreatePositionIds
    \/ \E keys \in SUBSET TensorKeys, cut_left \in BOOLEAN :
            CutToEffectiveLen(keys, cut_left)

SpecDerive == InitDerive /\ [][NextDerive]_vars

----------------------------------------------------------------------------
(* TensorHelper._example_level_pad, _example_level_pad_tensor              *)
(*                                                                         *)
(* The active-only tensor is [shape |-> <<rows, width>>, rows |-> ...]: a  *)
(* torch tensor of no rows still has a width.  A call returns a record     *)
(* whose field raised names the exception that ended it, "" for none.      *)

\* active_mask.sum()
mask_sum(active_mask) == Len(SelectSeq(active_mask, LAMBDA b : b))

\* torch.full((n, w), value)
full(n, w, value) == Tuple([i \in 1..n |-> Tuple([j \in 1..w |-> value])])

masked_assign_last_first(padded, active_mask, values) ==
    Tuple([i \in 1..Len(padded) |->
        IF active_mask[i]
        THEN values[mask_sum(active_mask) + 1 - mask_sum(SubSeq(active_mask, 1, i))]
        ELSE padded[i]])

\* padded[active_mask] = values, for as many values as the mask has True
\* entries: the k-th True row takes the k-th value
masked_assign(padded, active_mask, values) ==
    Tuple([i \in 1..Len(padded) |->
        IF active_mask[i] THEN values[mask_sum(SubSeq(active_mask, 1, i))]
        ELSE padded[i]])

assert_fewer_or_equal(active_mask, x) == mask_sum(active_mask) <= x.shape[1]

\* assert active_mask.sum() == x.shape[0]
assert_active_rows(active_mask, x) == mask_sum(active_mask) = x.shape[1]

\* the loop over enumerate(active_mask) of lines 69 to 73, from item i with
\* s strings consumed; responses_str[s] past the end is an IndexError
RECURSIVE str_loop(_, _, _, _, _)
str_loop(padded_responses_str, responses_str, active_mask, i, s) ==
    IF i > Len(active_mask) THEN [raised |-> "", strs |-> padded_responses_str]
    ELSE IF active_mask[i]
    THEN IF s >= Len(responses_str) THEN [raised |-> "IndexError"]
         ELSE str_loop([padded_responses_str EXCEPT ![i] = responses_str[s + 1]],
                       responses_str, active_mask, i + 1, s + 1)
    ELSE str_loop(padded_responses_str, responses_str, active_mask, i + 1, s)

example_level_pad(responses, responses_str, active_mask) ==
    IF ~assert_active_rows(active_mask, responses)
    THEN [raised |-> "AssertionError"]
    ELSE LET batch_size == Len(active_mask)
             seq_len == responses.shape[2]
             padded_responses ==
                 masked_assign(full(batch_size, seq_len, pad_token_id),
                               active_mask, responses.rows)
             looped == str_loop(Tuple([i \in 1..batch_size |-> ""]),
                                responses_str, active_mask, 1, 0)
         IN  IF looped.raised # "" THEN looped
             ELSE [raised |-> "",
                   padded_responses |-> padded_responses,
                   padded_responses_str |-> looped.strs]

example_level_pad_tensor(x, active_mask, pad_value) ==
    IF ~assert_active_rows(active_mask, x)
    THEN [raised |-> "AssertionError"]
    ELSE LET batch_size == Len(active_mask)
             seq_len == x.shape[2]
         IN  [raised |-> "",
              padded_x |-> masked_assign(full(batch_size, seq_len, pad_value),
                                         active_mask, x.rows)]

----------------------------------------------------------------------------
(* The scatterer called on an active mask, an active-only tensor and a     *)
(* list of response strings, of lengths the caller chose independently.    *)

MaxMaskLen == 3
MaxSeqLen == 1
MaxScatterCells == 2
MaxStrs == 3

\* pad_value=0.0 of _example_level_pad_tensor's signature
DefaultPadValue == 0

StrPool == <<"a", "b", "c", "d", "e", "f">>

ActiveMasks == UNION {[1..n -> BOOLEAN] : n \in 0..MaxMaskLen}

ActiveShapes ==
    {s \in (0..MaxBatch) \X (0..MaxSeqLen) : s[1] * s[2] <= MaxScatterCells}

ActiveTensors ==
    UNION {{[shape |-> s, rows |-> rows] : rows \in [1..s[1] -> [1..s[2] -> Tokens]]} :
                s \in ActiveShapes}

InitScatter ==
    /\ pad_token_id \in Tokens
    /\ \E responses \in ActiveTensors, active_mask \in ActiveMasks, n \in 0..MaxStrs :
            inp = [responses |-> responses,
                   responses_str |-> SubSeq(StrPool, 1, n),
                   active_mask |-> active_mask]
    /\ pc = "start"
    /\ arg = <<>>
    /\ ret = <<>>
    /\ calls = <<>>

ExampleLevelPad ==
    /\ pc = "start"
    /\ arg' = inp
    /\ ret' = example_level_pad(inp.responses, inp.responses_str, inp.active_mask)
    /\ pc' = "_example_level_pad"
    /\ UNCHANGED <<pad_token_id, inp, calls>>

ExampleLevelPadTensor(supplied) ==
    /\ pc = "start"
    /\ LET pad_value == IF supplied = None THEN DefaultPadValue ELSE supplied[1]
       IN  /\ arg' = [x |-> inp.responses, active_mask |-> inp.active_mask,
                      pad_value |-> pad_value]
           /\ ret' = example_level_pad_tensor(inp.responses, inp.active_mask, pad_value)
    /\ pc' = "_example_level_pad_tensor"
    /\ UNCHANGED <<pad_token_id, inp, calls>>

NextScatter ==
    \/ ExampleLevelPad
    \/ \E supplied \in Optional(Tokens) : ExampleLevelPadTensor(supplied)

SpecScatter == InitScatter /\ [][NextScatter]_vars

----------------------------------------------------------------------------
(* TensorHelper.pad_and_stack *)

\* torch.full((n,), value)
full1(n, value) == Tuple([j \in 1..n |-> value])

resolve_pad_value_falsy(pad_value) ==
    IF pad_value = None \/ pad_value[1] = 0 THEN pad_token_id ELSE pad_value[1]

\* if pad_value == None: pad_value = self.config.pad_token_id
resolve_pad_value(pad_value) ==
    IF pad_value = None THEN pad_token_id ELSE pad_value[1]

\* max([tensor.size(0) for tensor in tensor_list]) of an empty list is a
\* ValueError; torch.stack of rows of one length is the sequence of the rows
pad_and_stack(tensor_list, pad_to_left, pad_value) ==
    IF tensor_list = <<>> THEN [raised |-> "ValueError"]
    ELSE LET max_length ==
                 MaxOf([i \in 1..Len(tensor_list) |-> Len(tensor_list[i])],
                       Len(tensor_list))
             value == resolve_pad_value(pad_value)
             padded_tensors ==
                 Tuple([i \in 1..Len(tensor_list) |->
                     IF pad_to_left
                     THEN full1(max_length - Len(tensor_list[i]), value) \o tensor_list[i]
                     ELSE tensor_list[i] \o full1(max_length - Len(tensor_list[i]), value)])
         IN  [raised |-> "", stacked_tensor |-> padded_tensors]

----------------------------------------------------------------------------
(* The ragged stacker called on a list of 1-D sequences.                   *)

MaxStackCells == 3

\* sum of the first n entries of a sequence of numbers
RECURSIVE Total(_, _)
Total(f, n) == IF n = 0 THEN 0 ELSE Total(f, n - 1) + f[n]

\* the lists of sequences over Tokens whose lengths are lens[i..]
RECURSIVE ListsOf(_, _)
ListsOf(lens, i) ==
    IF i > Len(lens) THEN {<<>>}
    ELSE {<<s>> \o rest : s \in [1..lens[i] -> Tokens], rest \in ListsOf(lens, i + 1)}

RaggedLengths ==
    {lens \in UNION {[1..n -> 0..MaxWidth] : n \in 0..MaxBatch} :
        Total(lens, Len(lens)) <= MaxStackCells}

RaggedLists == UNION {ListsOf(lens, 1) : lens \in RaggedLengths}

InitStack ==
    /\ pad_token_id \in Tokens
    /\ \E tensor_list \in RaggedLists, pad_value \in Optional(Tokens) :
            inp = [tensor_list |-> tensor_list, pad_value |-> pad_value]
    /\ pc = "start"
    /\ arg = <<>>
    /\ ret = <<>>
    /\ calls = <<>>

PadAndStack(pad_to_left) ==
    /\ pc = "start"
    /\ arg' = [tensor_list |-> inp.tensor_list, pad_to_left |-> pad_to_left,
               pad_value |-> inp.pad_value]
    /\ ret' = pad_and_stack(inp.tensor_list, pad_to_left, inp.pad_value)
    /\ pc' = "pad_and_stack"
    /\ UNCHANGED <<pad_token_id, inp, calls>>

NextStack == \E pad_to_left \in BOOLEAN : PadAndStack(pad_to_left)

SpecStack == InitStack /\ [][NextStack]_vars

----------------------------------------------------------------------------
(* TensorHelper.concatenate_with_padding *)

\* row r of the fragments from the i-th on, side by side
RECURSIVE cat_row(_, _, _)
cat_row(tensors, r, i) ==
    IF i > Len(tensors) THEN <<>>
    ELSE tensors[i][r] \o cat_row(tensors, r, i + 1)

RECURSIVE cat_row_reversed(_, _, _)
cat_row_reversed(tensors, r, i) ==
    IF i > Len(tensors) THEN <<>>
    ELSE cat_row_reversed(tensors, r, i + 1) \o tensors[i][r]

cat_reversed(tensors) ==
    Tuple([r \in 1..Len(tensors[1]) |-> cat_row_reversed(tensors, r, 1)])

\* torch.cat(tensors, dim=1) of tensors of one row count
cat(tensors) == Tuple([r \in 1..Len(tensors[1]) |-> cat_row(tensors, r, 1)])

concatenate_with_padding(tensors, pad_to_left) ==
    LET concatenated == cat(tensors)
        padded_tensor == convert_pad_structure(concatenated, pad_to_left)[1]
    IN  padded_tensor

----------------------------------------------------------------------------
(* The concatenator called on a list of row-aligned fragments: a batch cut *)
(* into fragments at any columns.                                          *)

MaxFrags == 2
MaxCatCells == 4

CatShapes ==
    {s \in (1..MaxBatch) \X (0..MaxCatCells) : s[1] * s[2] <= MaxCatCells}

CatBatches == UNION {[1..s[1] -> [1..s[2] -> Tokens]] : s \in CatShapes}

\* the ways to cut width columns into 1..MaxFrags fragments of 0..MaxWidth
FragWidths(width) ==
    {ws \in UNION {[1..n -> 0..MaxWidth] : n \in 1..MaxFrags} :
        Total(ws, Len(ws)) = width}

\* the fragments of batch of the widths ws, left to right
Fragments(batch, ws) ==
    Tuple([i \in 1..Len(ws) |->
        Tuple([r \in 1..Len(batch) |->
            SubSeq(batch[r], Total(ws, i - 1) + 1, Total(ws, i))])])

InitConcat ==
    /\ pad_token_id \in Tokens
    /\ \E batch \in CatBatches :
        \E ws \in FragWidths(Len(batch[1])) : inp = Fragments(batch, ws)
    /\ pc = "start"
    /\ arg = <<>>
    /\ ret = <<>>
    /\ calls = <<>>

ConcatenateWithPadding(pad_to_left) ==
    /\ pc = "start"
    /\ arg' = [tensors |-> inp, pad_to_left |-> pad_to_left]
    /\ ret' = concatenate_with_padding(inp, pad_to_left)
    /\ pc' = "concatenate_with_padding"
    /\ UNCHANGED <<pad_token_id, inp, calls>>

NextConcat == \E pad_to_left \in BOOLEAN : ConcatenateWithPadding(pad_to_left)

SpecConcat == InitConcat /\ [][NextConcat]_vars

----------------------------------------------------------------------------
(* Vocabulary of the properties *)

IsPad(x) == x = pad_token_id

NonPad(row) == SelectSeq(row, LAMBDA x : ~IsPad(x))

PadCount(row) == Len(row) - Len(NonPad(row))

\* every pad cell is left of every non-pad cell
LeftPadded(row) ==
    \A i, j \in 1..Len(row) : (IsPad(row[j]) /\ ~IsPad(row[i])) => j < i

RightPadded(row) ==
    \A i, j \in 1..Len(row) : (IsPad(row[j]) /\ ~IsPad(row[i])) => i < j

PaddedOn(row, pad_to_left) == IF pad_to_left THEN LeftPadded(row) ELSE RightPadded(row)

IsPermutation(idx, n) ==
    /\ Len(idx) = n
    /\ \A k \in 1..n : \E j \in 1..n : idx[j] = k

\* C1: after convert_pad_structure(tensor, pad_to_left), every output row has
\* the input row's width and is the input row read through the returned
\* indices, which are a permutation of the columns; its pad cells are all on
\* the requested side; its non-pad tokens are those of the input row in the
\* same order.
C1_ConvertReorders ==
    pc = "convert_pad_structure" =>
        LET out == ret[1]
            idx == ret[2]
        IN  /\ Len(out) = Len(arg)
            /\ Len(idx) = Len(arg)
            /\ \A r \in 1..Len(arg) :
                /\ Len(out[r]) = Len(arg[r])
                /\ IsPermutation(idx[r], Len(arg[r]))
                /\ \A j \in 1..Len(arg[r]) : out[r][j] = arg[r][idx[r][j]]
                /\ PaddedOn(out[r], calls[Len(calls)])
                /\ NonPad(out[r]) = NonPad(arg[r])

\* a first call on a row with a pad between two different real tokens
C1_Witness ==
    /\ pc = "convert_pad_structure"
    /\ Len(calls) = 1
    /\ \E r \in 1..Len(arg) :
        /\ Len(arg[r]) = 3
        /\ ~IsPad(arg[r][1]) /\ IsPad(arg[r][2]) /\ ~IsPad(arg[r][3])
        /\ arg[r][1] # arg[r][3]
        /\ ret[1][r] # arg[r]

\* C2: after converting to left, then right, then left padding, every row
\* holds the original row's non-pad tokens in their order and as many pad
\* tokens as it had; an input that was left-padded comes back unchanged.
C2_RoundTrip ==
    (pc = "convert_pad_structure" /\ calls = RoundTrip) =>
        /\ Len(ret[1]) = Len(inp)
        /\ \A r \in 1..Len(inp) :
            /\ NonPad(ret[1][r]) = NonPad(inp[r])
            /\ PadCount(ret[1][r]) = PadCount(inp[r])
        /\ (\A r \in 1..Len(inp) : LeftPadded(inp[r])) => ret[1] = inp

\* the round trip done on a batch with two different real tokens and a pad in
\* one row that is not left-padded
C2_Witness ==
    /\ pc = "convert_pad_structure"
    /\ calls = RoundTrip
    /\ \E r \in 1..Len(inp) :
        /\ Len(NonPad(inp[r])) = 2
        /\ NonPad(inp[r])[1] # NonPad(inp[r])[2]
        /\ PadCount(inp[r]) = 1
        /\ ~LeftPadded(inp[r])

\* the number of non-pad cells of row left of column j
RealBefore(row, j) == Len(NonPad(SubSeq(row, 1, j - 1)))

\* the largest number of non-pad cells in a row of the batch
EffectiveLen(batch) ==
    CHOOSE n \in 0..Len(batch[1]) :
        /\ \A r \in 1..Len(batch) : Len(NonPad(batch[r])) <= n
        /\ \E r \in 1..Len(batch) : Len(NonPad(batch[r])) = n

\* C3: cut_to_effective_len on a batch padded on the side that is cut, with
\* the mask of its non-pad cells: every tensor named in keys comes back with
\* width effective_len, the largest non-pad count of a row, and every row
\* keeps its sequence of non-pad tokens.
C3_CutKeepsRealTokens ==
    (/\ pc = "cut_to_effective_len"
     /\ \A r \in 1..Len(inp) : PaddedOn(inp[r], arg.cut_left)) =>
        /\ \A key \in arg.keys :
            /\ Len(ret[key]) = Len(inp)
            /\ \A r \in 1..Len(inp) : Len(ret[key][r]) = EffectiveLen(inp)
        /\ \A r \in 1..Len(inp) : NonPad(ret.input_ids[r]) = NonPad(inp[r])

\* the part of C3 about the tokens alone: no trim of a batch padded on the
\* side that is cut removes or reorders a non-pad token
CutLosesNoRealToken ==
    (/\ pc = "cut_to_effective_len"
     /\ \A r \in 1..Len(inp) : PaddedOn(inp[r], arg.cut_left)) =>
        \A r \in 1..Len(inp) : NonPad(ret.input_ids[r]) = NonPad(inp[r])

\* C4: cut_to_effective_len on a batch whose rows are all pad returns, for
\* every key in keys, a tensor of width 0 with the original row count, for
\* either value of cut_left.
C4_AllPadCutsToZeroWidth ==
    (/\ pc = "cut_to_effective_len"
     /\ \A r \in 1..Len(inp) : NonPad(inp[r]) = <<>>) =>
        \A key \in arg.keys :
            /\ Len(ret[key]) = Len(inp)
            /\ \A r \in 1..Len(inp) : Len(ret[key][r]) = 0

\* what holds of the all-pad batch: cut_left = FALSE gives width 0, and
\* cut_left = TRUE gives back the full width
AllPadCutLeftKeepsWidth ==
    (/\ pc = "cut_to_effective_len"
     /\ \A r \in 1..Len(inp) : NonPad(inp[r]) = <<>>) =>
        \A key \in arg.keys : \A r \in 1..Len(inp) :
            Len(ret[key][r]) = IF arg.cut_left THEN Len(inp[r]) ELSE 0

\* C5: create_position_ids(create_attention_mask(B)): the id of a non-pad
\* cell is the number of non-pad cells left of it in its row, the id of a pad
\* cell is 0, and no id is negative.
C5_PositionIds ==
    pc = "create_position_ids" =>
        /\ Len(ret) = Len(inp)
        /\ \A r \in 1..Len(inp) :
            /\ Len(ret[r]) = Len(inp[r])
            /\ \A j \in 1..Len(inp[r]) :
                /\ ret[r][j] >= 0
                /\ ret[r][j] = IF IsPad(inp[r][j]) THEN 0
                               ELSE RealBefore(inp[r], j)

\* position ids of a row with a pad left of, between and right of real tokens
C5_Witness ==
    /\ pc = "create_position_ids"
    /\ \E r \in 1..Len(inp) :
        /\ Len(inp[r]) = 3
        /\ ~IsPad(inp[r][1]) /\ IsPad(inp[r][2]) /\ ~IsPad(inp[r][3])
        /\ ret[r] = <<0, 0, 1>>
    /\ \E r \in 1..Len(inp) : Len(inp[r]) > 0 /\ IsPad(inp[r][1])

\* the number of True entries among the first i of mask
TrueUpTo(mask, i) == Cardinality({k \in 1..i : mask[k]})

\* the rows of out are the active rows at the True places of mask, in their
\* order, and rows of width cells of fill elsewhere
Scattered(out, mask, active, width, fill) ==
    /\ Len(out) = Len(mask)
    /\ \A i \in 1..Len(mask) :
        /\ Len(out[i]) = width
        /\ IF mask[i] THEN out[i] = active[TrueUpTo(mask, i)]
           ELSE \A j \in 1..width : out[i][j] = fill

\* C6: the scatter, when active_mask has as many True entries as the
\* active-only tensor has rows: the output has len(active_mask) rows of the
\* input's width; the row at the k-th True entry is active row k and the
\* string there is responses_str[k]; a row at a False entry is all pad value
\* (pad_token_id, or pad_value in the tensor variant) and the string there is
\* empty.  The string variant returns whenever responses_str has an entry for
\* every True entry, and ends in an IndexError otherwise.
C6_Scatter ==
    /\ (pc = "_example_level_pad_tensor"
            /\ TrueUpTo(arg.active_mask, Len(arg.active_mask)) = arg.x.shape[1]) =>
        /\ ret.raised = ""
        /\ Scattered(ret.padded_x, arg.active_mask, arg.x.rows,
                     arg.x.shape[2], arg.pad_value)
    /\ (pc = "_example_level_pad"
            /\ TrueUpTo(arg.active_mask, Len(arg.active_mask)) = arg.responses.shape[1]) =>
        IF Len(arg.responses_str) < arg.responses.shape[1]
        THEN ret.raised = "IndexError"
        ELSE /\ ret.raised = ""
             /\ Scattered(ret.padded_responses, arg.active_mask, arg.responses.rows,
                          arg.responses.shape[2], pad_token_id)
             /\ Len(ret.padded_responses_str) = Len(arg.active_mask)
             /\ \A i \in 1..Len(arg.active_mask) :
                    ret.padded_responses_str[i] =
                        IF arg.active_mask[i]
                        THEN arg.responses_str[TrueUpTo(arg.active_mask, i)]
                        ELSE ""

\* the string variant returned for the mask [True, False, True] and two
\* different non-pad active rows
C6_Witness ==
    /\ pc = "_example_level_pad"
    /\ arg.active_mask = <<TRUE, FALSE, TRUE>>
    /\ ret.raised = ""
    /\ arg.responses.shape = <<2, 1>>
    /\ arg.responses.rows[1] # arg.responses.rows[2]
    /\ ~IsPad(arg.responses.rows[1][1]) /\ ~IsPad(arg.responses.rows[2][1])
    /\ ret.padded_responses_str = <<"a", "", "b">>

\* C7: in both variants, a number of True entries of active_mask that differs
\* from the number of rows of the active-only tensor ends the call in an
\* assertion failure, with no output.
C7_MismatchAsserts ==
    /\ (pc = "_example_level_pad_tensor"
            /\ TrueUpTo(arg.active_mask, Len(arg.active_mask)) # arg.x.shape[1]) =>
        ret = [raised |-> "AssertionError"]
    /\ (pc = "_example_level_pad"
            /\ TrueUpTo(arg.active_mask, Len(arg.active_mask)) # arg.responses.shape[1]) =>
        ret = [raised |-> "AssertionError"]

\* a call with more rows than True entries, ended by the assertion
C7_Witness ==
    /\ pc = "_example_level_pad"
    /\ arg.active_mask = <<TRUE, FALSE>>
    /\ arg.responses.shape = <<2, 1>>
    /\ ret.raised = "AssertionError"

\* C10: whenever _example_level_pad returns, every entry of responses_str has
\* been placed: the True entries of active_mask, each filled from the list,
\* are as many as the list is long.
C10_NoStringDropped ==
    (pc = "_example_level_pad" /\ ret.raised = "") =>
        TrueUpTo(arg.active_mask, Len(arg.active_mask)) = Len(arg.responses_str)

\* the longest sequence of list
MaxLength(list) ==
    CHOOSE n \in {Len(list[i]) : i \in 1..Len(list)} :
        \A i \in 1..Len(list) : Len(list[i]) <= n

\* C8: pad_and_stack on a non-empty list: one row per sequence, in list
\* order, of the width of the longest sequence; row i is sequence i whole,
\* with max_length - len_i pad cells before it (pad_to_left) or after it; the
\* pad cell is the supplied pad_value, 0 included, and pad_token_id when no
\* pad_value is supplied.
C8_PadAndStack ==
    (pc = "pad_and_stack" /\ arg.tensor_list # <<>>) =>
        /\ ret.raised = ""
        /\ Len(ret.stacked_tensor) = Len(arg.tensor_list)
        /\ \A i \in 1..Len(arg.tensor_list) :
            LET row == ret.stacked_tensor[i]
                seq == arg.tensor_list[i]
                n == MaxLength(arg.tensor_list) - Len(seq)
                fill == IF arg.pad_value = None THEN pad_token_id
                        ELSE arg.pad_value[1]
            IN  /\ Len(row) = MaxLength(arg.tensor_list)
                /\ IF arg.pad_to_left
                   THEN /\ SubSeq(row, n + 1, Len(row)) = seq
                        /\ \A j \in 1..n : row[j] = fill
                   ELSE /\ SubSeq(row, 1, Len(seq)) = seq
                        /\ \A j \in Len(seq) + 1..Len(row) : row[j] = fill

\* two sequences of different lengths stacked with a supplied pad_value of 0
\* under a pad_token_id that is not 0
C8_Witness ==
    /\ pc = "pad_and_stack"
    /\ Len(arg.tensor_list) = 2
    /\ Len(arg.tensor_list[1]) = 2 /\ Len(arg.tensor_list[2]) = 1
    /\ arg.pad_value = <<0>>
    /\ pad_token_id # 0
    /\ ret.raised = ""
    /\ ret.stacked_tensor[2] # arg.tensor_list[2]

\* the non-pad tokens of row r of the fragments from the i-th on
RECURSIVE RealAcross(_, _, _)
RealAcross(tensors, r, i) ==
    IF i > Len(tensors) THEN <<>>
    ELSE NonPad(tensors[i][r]) \o RealAcross(tensors, r, i + 1)

\* C9: concatenate_with_padding(tensors, pad_to_left): the output is as wide
\* as the fragments together; every row holds the non-pad tokens of all the
\* fragments in their order across the fragments, with every pad cell on the
\* requested side of them.
C9_Concatenate ==
    pc = "concatenate_with_padding" =>
        /\ Len(ret) = Len(arg.tensors[1])
        /\ \A r \in 1..Len(ret) :
            /\ Len(ret[r]) =
                Total([i \in 1..Len(arg.tensors) |-> Len(arg.tensors[i][r])],
                      Len(arg.tensors))
            /\ NonPad(ret[r]) = RealAcross(arg.tensors, r, 1)
            /\ PaddedOn(ret[r], arg.pad_to_left)

\* a left-padded prompt and a right-padded observation, of different real
\* tokens, joined to left padding
C9_Witness ==
    /\ pc = "concatenate_with_padding"
    /\ arg.pad_to_left
    /\ Len(arg.tensors) = 2
    /\ \E r \in 1..Len(ret) :
        LET prompt == arg.tensors[1][r]
            obs == arg.tensors[2][r]
        IN  /\ Len(prompt) = 2 /\ IsPad(prompt[1]) /\ ~IsPad(prompt[2])
            /\ Len(obs) = 2 /\ ~IsPad(obs[1]) /\ IsPad(obs[2])
            /\ prompt[2] # obs[1]
            /\ ret[r] = <<pad_token_id, pad_token_id, prompt[2], obs[1]>>

====
